---------------------------- MODULE Spec2Model ----------------------------
(***************************************************************************)
(* chunk_sum of mp_tasks.py: attach to a named shared-memory segment,      *)
(* overlay an ndarray of a given shape and dtype on its buffer, sum the    *)
(* slice [start:end] of the first dimension, close the local handle in a   *)
(* finally block and return the sum as a Python float.                     *)
(*                                                                         *)
(* Numbers are integers.  A float32 or float64 value is the integer it     *)
(* holds; an addition in a floating-point type rounds its result to the    *)
(* type's significand (24 or 53 bits), to nearest, ties to even.           *)
(***************************************************************************)
EXTENDS Integers, Sequences, FiniteSets, TLC

VARIABLES
  linked,   \* names of the segments that exist
  mem,      \* per created segment: element type, byte size, elements
  pc,       \* per caller: the line of chunk_sum it is at
  args,     \* per caller: the arguments of its call
  held,     \* per caller: its local handle is open
  opened,   \* per caller: attaches that succeeded in this call
  closes,   \* per caller: shm.close() calls executed in this call
  lo, hi,   \* per caller: np.sum's position and end in the flat buffer
  acc,      \* per caller: np.sum's accumulator
  out,      \* per caller: the value or exception of the call
  erred,    \* some finished call raised after it had attached
  phase,    \* what the driver of the calls is doing
  plan,     \* the cut points of the ranges handed to the workers
  solo,     \* per worker: outcome of its call when run alone
  parts     \* per worker: outcome of its call when run with the others

prog == <<pc, args, held, opened, closes, lo, hi, acc, out>>
driver == <<erred, phase, plan, solo, parts>>
vars == <<linked, mem, prog, driver>>

(* ------------------------------ bounds --------------------------------- *)

\* longest array the owner writes into the segment
MaxLen == 3
\* number of concurrent callers of chunk_sum
NumWorkers == 2

Workers == 1..NumWorkers

\* the one process that issues calls in the sequential specification
Caller == CHOOSE w \in Workers : \A v \in Workers : w <= v

(* ---------------------- the world outside the call --------------------- *)

\* name of the segment its owner created, and a name nobody created
SegName == "psm_a"
NoSegName == "psm_none"
Names == {SegName, NoSegName}

\* element types the owner writes; "S1" is a one-byte string type
OwnerTypes == {"float32", "float64", "int16", "S1"}

\* a descriptor numpy does not understand
BadDescr == "float7"

\* values the owner stores, per element type (2^24 = 16777216)
Values(dt) ==
  CASE dt = "float32" -> {1, 16777216}
    [] dt = "float64" -> {1, 16777216}
    [] dt = "int16"   -> {1, 300}
    [] dt = "S1"      -> {65, 66}

SeqsUpTo(S, n) == UNION {[1..k -> S] : k \in 1..n}

(* ------------------------- numpy, as chunk_sum uses it ----------------- *)

\* descriptors np.dtype accepts (those the model uses)
NumpyDescrs == {"float32", "float64", "int32", "int64", "int16", "S1"}

\* the formats section 4.1 of the specification calls supported
SupportedDescrs == {"float32", "float64", "int32", "int64"}

\* variant: only the supported formats are accepted
UnderstoodSupportedOnly(d) == d \in SupportedDescrs

\* np.dtype(dtype_str) succeeds
Understood(d) == d \in NumpyDescrs

\* np.dtype(dtype_str).itemsize
ItemSize(d) ==
  CASE d = "float32" -> 4
    [] d = "float64" -> 8
    [] d = "int32"   -> 4
    [] d = "int64"   -> 8
    [] d = "int16"   -> 2
    [] d = "S1"      -> 1

\* string and void types: np.sum raises "cannot perform reduce with flexible type"
IsFlexible(d) == d = "S1"

RECURSIVE Prod(_)
Prod(shape) == IF shape = <<>> THEN 1 ELSE Head(shape) * Prod(Tail(shape))

\* bytes np.ndarray(shape, dtype, buffer) needs from the buffer
NBytes(shape, d) == Prod(shape) * ItemSize(d)

\* variant: the element count is compared with the byte size
BufferTooSmallByCount(shape, d, size) == Prod(shape) > size

\* np.ndarray raises "buffer is too small for requested array"
BufferTooSmall(shape, d, size) == NBytes(shape, d) > size

\* elements in one index of the first dimension (row-major layout)
RowLen(shape) == Prod(Tail(shape))

\* variant: a negative bound is cut to 0 instead of counting from the end
ClampNoWrap(i, n) == IF i < 0 THEN 0 ELSE IF i > n THEN n ELSE i

\* a slice bound as Python normalises it against a dimension of n
Clamp(i, n) ==
  IF i < 0 THEN (IF i + n < 0 THEN 0 ELSE i + n)
  ELSE (IF i > n THEN n ELSE i)

\* variant: the slice starts at row 0 (arr[:end])
SliceLoFromZero(start, n) == 0

\* arr[start:end] covers rows SliceLo .. SliceHi - 1 (0-based, none if equal)
SliceLo(start, n) == Clamp(start, n)

\* variant: the end row is included (arr[start:end + 1])
SliceHiInclusive(start, end, n) ==
  IF Clamp(end + 1, n) < Clamp(start, n) THEN Clamp(start, n)
  ELSE Clamp(end + 1, n)

SliceHi(start, end, n) ==
  IF Clamp(end, n) < Clamp(start, n) THEN Clamp(start, n) ELSE Clamp(end, n)

Abs(x) == IF x < 0 THEN -x ELSE x

\* x rounded to p significant bits, to nearest, ties to even.  The numbers
\* of the model stay below 2^30: a significand of more than 30 bits holds
\* them as they are, and 2^e, e <= 30 - p, is the spacing of the results.
RoundTo(x, p) ==
  IF p > 30 \/ Abs(x) < 2^p THEN x
  ELSE LET e    == CHOOSE k \in 1..(30 - p) :
                     2^(p + k - 1) <= Abs(x) /\ Abs(x) < 2^(p + k)
           q    == 2^e
           m    == Abs(x) \div q
           rem  == Abs(x) - m * q
           up   == \/ 2 * rem > q
                   \/ 2 * rem = q /\ m % 2 = 1
           r    == IF up THEN (m + 1) * q ELSE m * q
       IN  IF x < 0 THEN -r ELSE r

\* one addition of np.sum's accumulator: float32 stays float32, float64
\* stays float64, int16 and int32 are accumulated in int64
Add(d, a, b) ==
  CASE d = "float32" -> RoundTo(a + b, 24)
    [] d = "float64" -> RoundTo(a + b, 53)
    [] OTHER         -> a + b

\* float(x) of a numpy scalar: a C double
ToFloat(x) == RoundTo(x, 53)

(* ------------------------------ outcomes -------------------------------- *)

NoOut == [kind |-> "none", val |-> 0, err |-> ""]
Returned(v) == [kind |-> "value", val |-> v, err |-> ""]
Raised(e) == [kind |-> "error", val |-> 0, err |-> e]

NoArgs == [name |-> "", shape |-> <<>>, dtype |-> "", start |-> 0, end |-> 0]

\* the i-th element (from 1) of the buffer: bytes past the owner's data are 0
ElemAt(seg, i) == IF i <= Len(seg.vals) THEN seg.vals[i] ELSE 0


(* ------------------------------- state ---------------------------------- *)

Segments ==
  UNION {[dtype : {dt}, vals : SeqsUpTo(Values(dt), MaxLen)] : dt \in OwnerTypes}

\* the owner created SegName with s.vals in it and pad spare bytes
Created(s, pad) ==
  /\ linked = {SegName}
  /\ mem = [n \in {SegName} |->
              [dtype |-> s.dtype, vals |-> s.vals,
               size |-> Len(s.vals) * ItemSize(s.dtype) + pad]]

\* no call is in progress
AllIdle ==
  /\ pc = [w \in Workers |-> "idle"]
  /\ args = [w \in Workers |-> NoArgs]
  /\ held = [w \in Workers |-> FALSE]
  /\ opened = [w \in Workers |-> 0]
  /\ closes = [w \in Workers |-> 0]
  /\ lo = [w \in Workers |-> 0]
  /\ hi = [w \in Workers |-> 0]
  /\ acc = [w \in Workers |-> 0]
  /\ out = [w \in Workers |-> NoOut]

NoOuts == [w \in Workers |-> NoOut]

Init ==
  /\ \E s \in Segments, pad \in {0, 1} : Created(s, pad)
  /\ AllIdle
  /\ erred = FALSE
  /\ phase = "seq"
  /\ plan = <<>>
  /\ solo = NoOuts
  /\ parts = NoOuts

(* ------------------------------ chunk_sum ------------------------------- *)

\* def chunk_sum(shm_name, shape, dtype_str, start, end), called with one of A
Call(w, A) ==
  /\ pc[w] = "idle"
  /\ pc' = [pc EXCEPT ![w] = "l30"]
  /\ \E a \in A : args' = [args EXCEPT ![w] = a]
  /\ UNCHANGED <<linked, mem, held, opened, closes, lo, hi, acc, out, driver>>

\* dtype = np.dtype(dtype_str)
ParseDtype(w) ==
  /\ pc[w] = "l30"
  /\ IF Understood(args[w].dtype)
       THEN /\ pc' = [pc EXCEPT ![w] = "l31"]
            /\ out' = out
       ELSE /\ pc' = [pc EXCEPT ![w] = "done"]
            /\ out' = [out EXCEPT ![w] = Raised("InvalidType")]
  /\ UNCHANGED <<linked, mem, args, held, opened, closes, lo, hi, acc, driver>>

\* variant: a missing segment is created (create=True), empty
AttachOrCreate(w) ==
  /\ pc[w] = "l31"
  /\ pc' = [pc EXCEPT ![w] = "l33"]
  /\ held' = [held EXCEPT ![w] = TRUE]
  /\ opened' = [opened EXCEPT ![w] = opened[w] + 1]
  /\ linked' = linked \cup {args[w].name}
  /\ mem' = IF args[w].name \in DOMAIN mem THEN mem
            ELSE [n \in DOMAIN mem \cup {args[w].name} |->
                    IF n \in DOMAIN mem THEN mem[n]
                    ELSE [dtype |-> args[w].dtype, vals |-> <<>>, size |-> 0]]
  /\ UNCHANGED <<args, closes, lo, hi, acc, out, driver>>

\* variant: the attach waits until no other caller holds a handle
AttachExclusive(w) ==
  /\ pc[w] = "l31"
  /\ \A v \in Workers \ {w} : ~held[v]
  /\ IF args[w].name \in linked
       THEN /\ pc' = [pc EXCEPT ![w] = "l33"]
            /\ held' = [held EXCEPT ![w] = TRUE]
            /\ opened' = [opened EXCEPT ![w] = opened[w] + 1]
            /\ out' = out
       ELSE /\ pc' = [pc EXCEPT ![w] = "done"]
            /\ out' = [out EXCEPT ![w] = Raised("NotFound")]
            /\ UNCHANGED <<held, opened>>
  /\ UNCHANGED <<linked, mem, args, closes, lo, hi, acc, driver>>

\* shm = shared_memory.SharedMemory(name=shm_name)
Attach(w) ==
  /\ pc[w] = "l31"
  /\ IF args[w].name \in linked
       THEN /\ pc' = [pc EXCEPT ![w] = "l33"]
            /\ held' = [held EXCEPT ![w] = TRUE]
            /\ opened' = [opened EXCEPT ![w] = opened[w] + 1]
            /\ out' = out
       ELSE /\ pc' = [pc EXCEPT ![w] = "done"]
            /\ out' = [out EXCEPT ![w] = Raised("NotFound")]
            /\ UNCHANGED <<held, opened>>
  /\ UNCHANGED <<linked, mem, args, closes, lo, hi, acc, driver>>

\* variant: no try/finally, the error leaves chunk_sum at once
MakeViewNoFinally(w) ==
  /\ pc[w] = "l33"
  /\ IF BufferTooSmall(args[w].shape, args[w].dtype, mem[args[w].name].size)
       THEN /\ pc' = [pc EXCEPT ![w] = "done"]
            /\ out' = [out EXCEPT ![w] = Raised("SizeMismatch")]
       ELSE /\ pc' = [pc EXCEPT ![w] = "l34"]
            /\ out' = out
  /\ UNCHANGED <<linked, mem, args, held, opened, closes, lo, hi, acc, driver>>

\* arr = np.ndarray(shape, dtype=dtype, buffer=shm.buf)
MakeView(w) ==
  /\ pc[w] = "l33"
  /\ IF BufferTooSmall(args[w].shape, args[w].dtype, mem[args[w].name].size)
       THEN /\ pc' = [pc EXCEPT ![w] = "l36"]
            /\ out' = [out EXCEPT ![w] = Raised("SizeMismatch")]
       ELSE /\ pc' = [pc EXCEPT ![w] = "l34"]
            /\ out' = out
  /\ UNCHANGED <<linked, mem, args, held, opened, closes, lo, hi, acc, driver>>

\* arr[start:end], and np.sum's check of the element type
SumBegin(w) ==
  /\ pc[w] = "l34"
  /\ IF IsFlexible(args[w].dtype)
       THEN /\ pc' = [pc EXCEPT ![w] = "l36"]
            /\ out' = [out EXCEPT ![w] = Raised("TypeError")]
            /\ UNCHANGED <<lo, hi, acc>>
       ELSE LET n == Head(args[w].shape)
                r == RowLen(args[w].shape)
            IN  /\ pc' = [pc EXCEPT ![w] = "sum"]
                /\ lo' = [lo EXCEPT ![w] = SliceLo(args[w].start, n) * r]
                /\ hi' = [hi EXCEPT ![w] =
                            SliceHi(args[w].start, args[w].end, n) * r]
                /\ acc' = [acc EXCEPT ![w] = 0]
                /\ out' = out
  /\ UNCHANGED <<linked, mem, args, held, opened, closes, driver>>

\* variant: the running sum is written back into the buffer
SumStepInPlace(w) ==
  /\ pc[w] = "sum"
  /\ lo[w] < hi[w]
  /\ acc' = [acc EXCEPT ![w] =
               Add(args[w].dtype, acc[w], ElemAt(mem[args[w].name], lo[w] + 1))]
  /\ mem' = [mem EXCEPT ![args[w].name].vals[lo[w] + 1] = acc'[w]]
  /\ lo' = [lo EXCEPT ![w] = lo[w] + 1]
  /\ UNCHANGED <<linked, pc, args, held, opened, closes, hi, out, driver>>

\* np.sum: one element read from the mapped buffer and added
SumStep(w) ==
  /\ pc[w] = "sum"
  /\ lo[w] < hi[w]
  /\ acc' = [acc EXCEPT ![w] =
               Add(args[w].dtype, acc[w], ElemAt(mem[args[w].name], lo[w] + 1))]
  /\ lo' = [lo EXCEPT ![w] = lo[w] + 1]
  /\ UNCHANGED <<linked, mem, pc, args, held, opened, closes, hi, out, driver>>

\* return float(np.sum(...)): the value is held until the finally block ran
SumEnd(w) ==
  /\ pc[w] = "sum"
  /\ lo[w] = hi[w]
  /\ pc' = [pc EXCEPT ![w] = "l36"]
  /\ out' = [out EXCEPT ![w] = Returned(ToFloat(acc[w]))]
  /\ lo' = [lo EXCEPT ![w] = 0]
  /\ hi' = [hi EXCEPT ![w] = 0]
  /\ acc' = [acc EXCEPT ![w] = 0]
  /\ UNCHANGED <<linked, mem, args, held, opened, closes, driver>>

\* variant: the handle is closed and the segment unlinked
CloseAndUnlink(w) ==
  /\ pc[w] = "l36"
  /\ held' = [held EXCEPT ![w] = FALSE]
  /\ closes' = [closes EXCEPT ![w] = closes[w] + 1]
  /\ pc' = [pc EXCEPT ![w] = "done"]
  /\ linked' = linked \ {args[w].name}
  /\ UNCHANGED <<mem, args, opened, lo, hi, acc, out, driver>>

\* finally: shm.close()
Close(w) ==
  /\ pc[w] = "l36"
  /\ held' = [held EXCEPT ![w] = FALSE]
  /\ closes' = [closes EXCEPT ![w] = closes[w] + 1]
  /\ pc' = [pc EXCEPT ![w] = "done"]
  /\ UNCHANGED <<linked, mem, args, opened, lo, hi, acc, out, driver>>

Step(w) ==
  \/ ParseDtype(w)
  \/ Attach(w)
  \/ MakeView(w)
  \/ SumBegin(w)
  \/ SumStep(w)
  \/ SumEnd(w)
  \/ Close(w)

(* ------------------------- one caller, any call ------------------------- *)

\* the caller has taken the value or the exception of its call
Finish(w) ==
  /\ pc[w] = "done"
  /\ pc' = [pc EXCEPT ![w] = "idle"]
  /\ args' = [args EXCEPT ![w] = NoArgs]
  /\ opened' = [opened EXCEPT ![w] = 0]
  /\ closes' = [closes EXCEPT ![w] = 0]
  /\ out' = [out EXCEPT ![w] = NoOut]
  /\ erred' = (erred \/ (out[w].kind = "error" /\ opened[w] > 0))
  /\ UNCHANGED <<linked, mem, held, lo, hi, acc, phase, plan, solo, parts>>

Shapes ==
  {<<n>> : n \in 1..(MaxLen + 1)} \cup {<<n, m>> : n \in 1..2, m \in 1..2}

Bounds == (0 - 1)..(MaxLen + 2)

\* every call the sequential caller may issue against the segment
AllArgs ==
  [name : Names, shape : Shapes, dtype : {mem[SegName].dtype, BadDescr},
   start : Bounds, end : Bounds]

Next ==
  \/ Call(Caller, AllArgs)
  \/ Step(Caller)
  \/ Finish(Caller)

Spec == Init /\ [][Next]_vars

(* ---------------------- a pool of workers, one array -------------------- *)
(* The external caller of spec section 5: it cuts [0, n) into one range    *)
(* per worker, runs each call alone, then all of them at once, then one    *)
(* call over the whole array, and adds up what the workers returned.       *)

\* cut points c[1] <= ... <= c[NumWorkers] = n; worker w gets [c[w-1], c[w])
Plans(n) ==
  {c \in [Workers -> 0..n] :
     /\ c[NumWorkers] = n
     /\ \A w \in Workers : w > 1 => c[w - 1] <= c[w]}

RangeLo(w) == IF w = 1 THEN 0 ELSE plan[w - 1]
RangeHi(w) == plan[w]

\* the whole array: its shape and the descriptor its owner wrote it with
PoolArgs(s, e) ==
  [name |-> SegName, shape |-> <<Len(mem[SegName].vals)>>,
   dtype |-> mem[SegName].dtype, start |-> s, end |-> e]

PlanArgs(w) == PoolArgs(RangeLo(w), RangeHi(w))
WholeArgs == PoolArgs(0, Len(mem[SegName].vals))

InitPool ==
  /\ \E s \in Segments : Created(s, 0)
  /\ AllIdle
  /\ erred = FALSE
  /\ phase = "solo"
  /\ plan \in Plans(Len(mem[SegName].vals))
  /\ solo = NoOuts
  /\ parts = NoOuts

Quiet(w) == pc[w] \in {"idle", "done"}

\* a worker runs its call while no other call is in progress
SoloCall(w) ==
  /\ phase = "solo"
  /\ \A v \in Workers \ {w} : Quiet(v)
  /\ Call(w, {PlanArgs(w)})

\* a worker runs its call, whatever the others are doing
PoolCall(w) ==
  /\ phase = "pool"
  /\ Call(w, {PlanArgs(w)})

\* one call sums the whole array
WholeCall ==
  /\ phase = "whole"
  /\ Call(Caller, {WholeArgs})

\* the calls of the phase are over: the driver keeps what they returned
Collect ==
  /\ \/ /\ phase = "solo"
        /\ \A w \in Workers : pc[w] = "done"
        /\ solo' = out
        /\ phase' = "pool"
        /\ parts' = parts
     \/ /\ phase = "pool"
        /\ \A w \in Workers : pc[w] = "done"
        /\ parts' = out
        /\ phase' = "whole"
        /\ solo' = solo
     \/ /\ phase = "whole"
        /\ pc[Caller] = "done"
        /\ solo' = NoOuts
        /\ parts' = NoOuts
        /\ phase' = "solo"
  /\ pc' = [w \in Workers |-> "idle"]
  /\ args' = [w \in Workers |-> NoArgs]
  /\ opened' = [w \in Workers |-> 0]
  /\ closes' = [w \in Workers |-> 0]
  /\ out' = NoOuts
  /\ erred' = (erred \/ \E w \in Workers : out[w].kind = "error" /\ opened[w] > 0)
  /\ UNCHANGED <<linked, mem, held, lo, hi, acc, plan>>

NextPool ==
  \/ \E w \in Workers : SoloCall(w)
  \/ \E w \in Workers : PoolCall(w)
  \/ WholeCall
  \/ \E w \in Workers : Step(w)
  \/ Collect

SpecPool == InitPool /\ [][NextPool]_vars

(* ------------------------------ properties ------------------------------ *)

Done(w) == pc[w] = "done"

\* the call names the segment, with a numeric descriptor and a shape that fits
Readable(a) ==
  /\ a.name \in linked
  /\ a.dtype \in NumpyDescrs \ {"S1"}
  /\ Prod(a.shape) * ItemSize(a.dtype) <= mem[a.name].size

\* 0 <= start <= end <= shape[0]
InRange(a) == 0 <= a.start /\ a.start <= a.end /\ a.end <= Head(a.shape)

\* first-dimension index (from 0) of the j-th element (from 1) of the view
RowOf(j, shape) == (j - 1) \div Prod(Tail(shape))

\* elements of the view whose first-dimension index i has s <= i < e
Picked(shape, s, e) ==
  {j \in 1..Prod(shape) : s <= RowOf(j, shape) /\ RowOf(j, shape) < e}

RECURSIVE SumOver(_, _)
SumOver(S, v) ==
  IF S = {} THEN 0
  ELSE LET j == CHOOSE x \in S : TRUE IN v[j] + SumOver(S \ {j}, v)

RECURSIVE SumAbsOver(_, _)
SumAbsOver(S, v) ==
  IF S = {} THEN 0
  ELSE LET j == CHOOSE x \in S : TRUE IN Abs(v[j]) + SumAbsOver(S \ {j}, v)

\* the mathematical sum of the elements of rows [s, e)
ExactSum(a, s, e) == SumOver(Picked(a.shape, s, e), mem[a.name].vals)

\* every partial sum of the picked elements is a float32 (|x| <= 2^24) when
\* the accumulator is float32; the other accumulators hold 2^53
Representable(a, s, e) ==
  a.dtype = "float32" =>
    SumAbsOver(Picked(a.shape, s, e), mem[a.name].vals) <= 16777216

\* a Python slice bound against a dimension of n: a negative bound counts
\* from the end, and the result is cut to 0 .. n
PyBound(i, n) ==
  LET k == IF i < 0 THEN i + n ELSE i
  IN  IF k < 0 THEN 0 ELSE IF k > n THEN n ELSE k

C2_HandleReleased ==
  \A w \in Workers :
    /\ opened[w] <= 1 /\ closes[w] <= opened[w]
    /\ held[w] <=> (opened[w] = 1 /\ closes[w] = 0)
    /\ Done(w) => (~held[w] /\ closes[w] = opened[w])

C2_Witness ==
  \E w \in Workers :
    Done(w) /\ opened[w] = 1 /\ closes[w] = 1 /\ out[w].kind = "error"

\* C3: chunk_sum neither creates nor unlinks a segment: the segment exists
\* and the other name does not, whatever calls have finished, and every
\* call that has passed the attach with the segment's name got its handle.
C3_SegmentKept ==
  /\ linked = {SegName}
  /\ DOMAIN mem = {SegName}
  /\ \A w \in Workers :
       (args[w].name = SegName /\ pc[w] \in {"l33", "l34", "sum", "l36", "done"}
          /\ args[w].dtype \in NumpyDescrs)
         => (opened[w] = 1 /\ out[w].err # "NotFound")

C3_Witness ==
  \E w \in Workers : erred /\ pc[w] = "l33" /\ held[w]

\* C4 as stated: start and end outside 0 <= start <= end <= shape[0] make an
\* otherwise readable call fail with OutOfRange.
C4_AsStated ==
  \A w \in Workers :
    (Done(w) /\ Readable(args[w]) /\ ~InRange(args[w])) =>
      out[w] = Raised("OutOfRange")

\* C4, amended: such a call raises nothing and returns the sum over the
\* Python slice arr[start:end]: a negative bound counts from the end, bounds
\* are cut to 0 .. shape[0], and the slice is empty (sum 0.0) when its start
\* is not below its end, as for start = 5, end = 2.
C4_PythonSlice ==
  \A w \in Workers :
    (Done(w) /\ Readable(args[w]) /\ ~InRange(args[w])) =>
      LET n == Head(args[w].shape)
          s == PyBound(args[w].start, n)
          e == PyBound(args[w].end, n)
      IN  /\ out[w].kind = "value"
          /\ s >= e => out[w] = Returned(0)
          /\ Representable(args[w], s, e) =>
               out[w] = Returned(ExactSum(args[w], s, e))

C4_Witness ==
  \E w \in Workers :
    /\ Done(w) /\ Readable(args[w])
    /\ args[w].start = 5 /\ args[w].end = 2
    /\ out[w] = Returned(0)

\* C5 as stated: a name of no existing segment makes the call fail with
\* NotFound, with no handle acquired.
C5_AsStated ==
  \A w \in Workers :
    (Done(w) /\ args[w].name \notin linked) =>
      (out[w] = Raised("NotFound") /\ opened[w] = 0 /\ ~held[w])

\* C5, amended: with a name of no existing segment the call fails with
\* NotFound when np.dtype accepts dtype_str, and with InvalidType, raised
\* before the attach, when it does not; either way it returns no value and
\* acquires no handle.
C5_NotFound ==
  \A w \in Workers :
    (Done(w) /\ args[w].name \notin {SegName}) =>
      /\ args[w].dtype \in NumpyDescrs => out[w] = Raised("NotFound")
      /\ args[w].dtype \notin NumpyDescrs => out[w] = Raised("InvalidType")
      /\ opened[w] = 0 /\ closes[w] = 0 /\ ~held[w]

C5_Witness ==
  \E w \in Workers :
    Done(w) /\ args[w].name = NoSegName /\ out[w] = Raised("NotFound")
      /\ opened[w] = 0

\* C8: a shape that needs more bytes than the segment has makes the call
\* fail with SizeMismatch, with the handle closed and nothing summed; np.sum
\* never reads past the end of the buffer.
C8_SizeMismatch ==
  \A w \in Workers :
    /\ (Done(w) /\ args[w].name = SegName /\ args[w].dtype \in NumpyDescrs
          /\ Prod(args[w].shape) * ItemSize(args[w].dtype) > mem[SegName].size)
         => (out[w] = Raised("SizeMismatch") /\ closes[w] = 1 /\ ~held[w])
    /\ pc[w] = "sum" => hi[w] * ItemSize(args[w].dtype) <= mem[SegName].size

C8_Witness ==
  \E w \in Workers :
    /\ Done(w) /\ out[w] = Raised("SizeMismatch") /\ closes[w] = 1
    /\ Prod(args[w].shape) = Len(mem[SegName].vals) + 1

\* C9 as stated: every descriptor outside the supported formats is
\* rejected with InvalidType (in a call that names the segment, with a
\* shape that fits it).
C9_AsStated ==
  \A w \in Workers :
    (Done(w) /\ args[w].dtype \notin SupportedDescrs
       /\ args[w].name = SegName
       /\ (args[w].dtype \in NumpyDescrs =>
             Prod(args[w].shape) * ItemSize(args[w].dtype) <= mem[SegName].size))
      => out[w] = Raised("InvalidType")

\* C9, amended: a descriptor np.dtype does not accept makes the call fail
\* with InvalidType before it attaches, with no value; a descriptor np.dtype
\* accepts is never rejected with InvalidType, supported or not: int16 is
\* summed, and a string type fails only in np.sum, after the attach.
C9_InvalidType ==
  \A w \in Workers :
    /\ (args[w].dtype \notin NumpyDescrs /\ pc[w] \notin {"idle", "l30"})
         => (Done(w) /\ out[w] = Raised("InvalidType") /\ opened[w] = 0)
    /\ (Done(w) /\ args[w].dtype \in NumpyDescrs)
         => out[w].err # "InvalidType"
    /\ (Done(w) /\ args[w].dtype = "int16" /\ Readable(args[w]))
         => out[w].kind = "value"
    /\ (Done(w) /\ args[w].dtype = "S1" /\ out[w].err = "TypeError")
         => (opened[w] = 1 /\ closes[w] = 1)

C9_Witness ==
  \E w \in Workers :
    Done(w) /\ args[w].dtype = BadDescr /\ args[w].name = SegName
      /\ out[w] = Raised("InvalidType")

(* ------------------------ properties of the pool ------------------------ *)

NumElems == Len(mem[SegName].vals)

Numeric == mem[SegName].dtype # "S1"

\* workers 3, 4, ... got empty ranges: the plan is a split [0, k), [k, n)
TwoWay == \A w \in Workers : w >= 2 => plan[w] = NumElems

RECURSIVE SumVals(_, _)
SumVals(f, k) == IF k = 0 THEN 0 ELSE f[k].val + SumVals(f, k - 1)

\* every partial sum of the array is representable in np.sum's accumulator
WholeRepresentable == Representable(WholeArgs, 0, NumElems)

PoolIndependent ==
  /\ \A w \in Workers : (phase = "pool" /\ ~Quiet(w)) => ENABLED Step(w)
  /\ \A w \in Workers : (phase = "pool" /\ Done(w)) => out[w] = solo[w]
  /\ (phase = "pool" /\ \A w \in Workers : Done(w)) =>
       ((\A w \in Workers : ~held[w] /\ closes[w] = 1) /\ SegName \in linked)

C10_ReadOnly ==
  /\ [][mem' = mem /\ linked' = linked]_vars
  /\ [](phase = "whole" => parts = solo)

C10_Witness ==
  /\ phase = "whole" /\ parts = solo
  /\ \A w \in Workers : parts[w].kind = "value" /\ parts[w].val > 1

=============================================================================
